---- MODULE Spec2Model ----
(***************************************************************************)
(* Kernel Monitor: the /proc/kernel_monitor snapshot provider              *)
(* (src/kernel_monitor.c) and the polling client (src/monitor_app.c).      *)
(*                                                                         *)
(* Spec        the provider: proc_show walking the live task list while    *)
(*             processes are created, exit and are reclaimed.              *)
(* ClientSpec  the client: main's option loop, watch_mode, display_data    *)
(*             and read_kernel_data.                                       *)
(* ClientFairSpec  ClientSpec with the client thread always making its   *)
(*             next step.                                                  *)
(* ModuleSpec  kernel_monitor_init and kernel_monitor_exit acting on the   *)
(*             /proc entry.                                                *)
(* NumSpec     the unsigned long arithmetic of the memory columns.         *)
(***************************************************************************)
EXTENDS Integers, Sequences, FiniteSets, TLC

(***************************************************************************)
(* Bounds of the model.                                                    *)
(***************************************************************************)
NSlots == 2          \* task_struct / mm_struct objects besides init_task
MaxPid == 2          \* processes ever created
MaxShows == 2        \* reads of /proc/kernel_monitor

NULL == 0            \* the null pointer; also the address of init_task
PAGE_KB == 4         \* src/kernel_monitor.c:90 "(mm->total_vm * 4)"
POISON == -1         \* what a freed object may read as

Slots == 1..NSlots
Mms == 1..NSlots
TotalVmValues == {1, 3}

VARIABLES
    \* ---- the platform's process table ----
    tstate,           \* slot -> "free" | "live" | "unhashed"
    tpid,             \* slot -> task->pid (left as it was when freed)
    tmm,              \* slot -> task->mm (NULL for a kernel thread / after exit_mm)
    tnext,            \* 0..NSlots -> task->tasks.next (index 0 is init_task)
    mm_users,         \* mm -> reference count, 0 = the mm_struct is freed
    total_vm,         \* mm -> mm->total_vm
    nextpid,          \* next pid to hand out
    \* ---- one invocation of proc_show ----
    pc,               \* "idle" | "next" | "get_mm" | "print" | "mmput" | "footer" | "done" | "oops"
    task,             \* struct task_struct *task
    task_pid,         \* pid of the entry `task` pointed at when it was loaded
    mm,               \* struct mm_struct *mm
    total_processes,  \* unsigned long total_processes
    rows,             \* process rows written to the seq_file
    footer,           \* value printed by "Total Processes: %lu", -1 before
    visits,           \* result of get_task_mm for every entry visited
    shows             \* invocations started

VARIABLES
    argv,            \* the options of the command line
    optind,          \* index of the next option to parse
    last_opt,        \* what getopt_long returned last ("" before)
    raw_mode,        \* int raw_mode
    watch_interval,  \* int watch_interval
    cpc,             \* "parse" | "watch" | "warmup" | "open" | "read" | "show" | "sleep" | "ret" | "exit"
    exit_code,       \* process exit status, -1 while running
    watching,        \* watch_mode has been entered
    raw,             \* display_data's parameter
    out,             \* stdout written by main and watch_mode
    err,             \* stderr written by main
    frame_out,       \* stdout written by the current display_data call
    frame_err,       \* stderr written by the current display_data call
    fd_open,         \* open handles on the endpoint
    avail,           \* bytes of text behind the handle, -1 when none
    bytes_read,      \* ssize_t bytes_read
    nul_at,          \* index of buffer the terminator was stored at, -1 when none
    fetch_result,    \* "none" | "ok" | "open_failed" | "read_failed"
    fetches,         \* display_data calls so far (saturating)
    slept            \* seconds of the latest sleep, 0 before

cvars == <<argv, optind, last_opt, raw_mode, watch_interval, cpc, exit_code, watching,
           raw, out, err, frame_out, frame_err, fd_open, avail, bytes_read,
           nul_at, fetch_result, fetches, slept>>

VARIABLES
    proc_entry,      \* /proc/kernel_monitor exists
    init_ret,        \* what kernel_monitor_init returned last, 1 before any call
    dmesg,           \* kernel log lines written by the module and by procfs
    mod_calls        \* calls of kernel_monitor_init / kernel_monitor_exit so far

mvars == <<proc_entry, init_ret, dmesg, mod_calls>>

VARIABLES
    num_pages,       \* a page count held in an unsigned long
    num_kb,          \* what line 90 prints for it, <<>> before
    num_mb           \* what lines 72/74 print for it, <<>> before

nvars == <<num_pages, num_kb, num_mb>>

kvars == <<tstate, tpid, tmm, tnext, mm_users, total_vm, nextpid,
           pc, task, task_pid, mm, total_processes, rows, footer, visits, shows>>

(***************************************************************************)
(* The task list: a circular list headed by init_task (index 0).           *)
(***************************************************************************)
OnList == {0} \cup {s \in Slots : tstate[s] = "live"}

\* the entry whose tasks.next is e (e is on the list)
PrevOf(e) == CHOOSE p \in OnList : tnext[p] = e

\* references that tasks hold on mm m
TaskRefs(m) == Cardinality({s \in Slots : tstate[s] # "free" /\ tmm[s] = m})

\* proc_show never enters an RCU read-side critical section and never takes
\* tasklist_lock, so a grace period is free to end while it walks the list
rcu_read_lock_held == FALSE

KInit ==
    /\ tstate = [s \in Slots |-> "free"]
    /\ tpid = [s \in Slots |-> 0]
    /\ tmm = [s \in Slots |-> NULL]
    /\ tnext = [s \in 0..NSlots |-> 0]
    /\ mm_users = [m \in Mms |-> 0]
    /\ total_vm = [m \in Mms |-> 0]
    /\ nextpid = 1
    /\ pc = "idle"
    /\ task = 0
    /\ task_pid = 0
    /\ mm = NULL
    /\ total_processes = 0
    /\ rows = <<>>
    /\ footer = -1
    /\ visits = <<>>
    /\ shows = 0

show_vars == <<pc, task, task_pid, mm, total_processes, rows, footer, visits, shows>>

(***************************************************************************)
(* Platform: process creation, exit, unhashing and reclamation.            *)
(***************************************************************************)
\* copy_process: a new task_struct is linked at the tail of the task list.
\* A user process gets its own mm (mm_users = 1), a kernel thread none.
Fork(s, user, vm) ==
    /\ nextpid <= MaxPid
    /\ tstate[s] = "free"
    /\ \A x \in Slots : tstate[x] = "free" => s <= x
    /\ LET m == IF user /\ \E x \in Mms : mm_users[x] = 0
                THEN CHOOSE x \in Mms : mm_users[x] = 0 /\ \A y \in Mms : mm_users[y] = 0 => x <= y
                ELSE NULL
       IN /\ user => m # NULL
          /\ ~user => vm = 1
          /\ tstate' = [tstate EXCEPT ![s] = "live"]
          /\ tpid' = [tpid EXCEPT ![s] = nextpid]
          /\ tmm' = [tmm EXCEPT ![s] = m]
          /\ tnext' = [tnext EXCEPT ![PrevOf(0)] = s, ![s] = 0]
          /\ mm_users' = IF m = NULL THEN mm_users ELSE [mm_users EXCEPT ![m] = 1]
          /\ total_vm' = IF m = NULL THEN total_vm ELSE [total_vm EXCEPT ![m] = vm]
    /\ nextpid' = nextpid + 1
    /\ UNCHANGED show_vars
    /\ UNCHANGED cvars
    /\ UNCHANGED <<mvars, nvars>>

\* exit_mm: the exiting task drops its mapping; it stays on the list (zombie)
ExitMm(s) ==
    /\ tstate[s] = "live"
    /\ tmm[s] # NULL
    /\ tmm' = [tmm EXCEPT ![s] = NULL]
    /\ mm_users' = [mm_users EXCEPT ![tmm[s]] = @ - 1]
    /\ UNCHANGED <<tstate, tpid, tnext, total_vm, nextpid>>
    /\ UNCHANGED show_vars
    /\ UNCHANGED cvars
    /\ UNCHANGED <<mvars, nvars>>

\* release_task: list_del_rcu takes the entry off the list; its own next
\* pointer is left in place for readers still standing on it
ReleaseTask(s) ==
    /\ tstate[s] = "live"
    /\ tmm[s] = NULL
    /\ tstate' = [tstate EXCEPT ![s] = "unhashed"]
    /\ tnext' = [tnext EXCEPT ![PrevOf(s)] = tnext[s]]
    /\ UNCHANGED <<tpid, tmm, mm_users, total_vm, nextpid>>
    /\ UNCHANGED show_vars
    /\ UNCHANGED cvars
    /\ UNCHANGED <<mvars, nvars>>

\* delayed_put_task_struct: the grace period is over, the task_struct is freed
Reclaim(s) ==
    /\ tstate[s] = "unhashed"
    /\ ~rcu_read_lock_held
    /\ tstate' = [tstate EXCEPT ![s] = "free"]
    /\ UNCHANGED <<tpid, tmm, tnext, mm_users, total_vm, nextpid>>
    /\ UNCHANGED show_vars
    /\ UNCHANGED cvars
    /\ UNCHANGED <<mvars, nvars>>

(***************************************************************************)
(* proc_show                                                               *)
(***************************************************************************)
plat_vars == <<tstate, tpid, tmm, tnext, total_vm, nextpid>>

(***************************************************************************)
(* unsigned long arithmetic of the memory columns                          *)
(* (src/kernel_monitor.c:71-74 and 87-90)                                  *)
(*                                                                         *)
(* An unsigned long is ULONG_LIMBS limbs of 16 bits, least significant     *)
(* first (BITS_PER_LONG = 64); a product keeps the low ULONG_LIMBS limbs.  *)
(***************************************************************************)
LimbBase == 65536
ULONG_LIMBS == 4
KB_PER_MB == 1024    \* src/kernel_monitor.c:72 "(mem_info.totalram * 4) / 1024"

\* conversions for the values of the process table, all below 2^31
NatToUlong(n) == [i \in 1..ULONG_LIMBS |->
                    IF i = 1 THEN n % LimbBase ELSE IF i = 2 THEN n \div LimbBase ELSE 0]
UlongToNat(u) == u[1] + LimbBase * u[2]

\* a * k limb by limb; the last element is the carry out of the top limb
RECURSIVE MulCarry(_, _, _, _)
MulCarry(a, k, i, c) ==
    IF i > Len(a) THEN <<c>>
    ELSE LET t == a[i] * k + c
         IN  <<t % LimbBase>> \o MulCarry(a, k, i + 1, t \div LimbBase)

\* the product in unsigned long: the carry out of the top limb is lost
UlongMul_u32(a, k) ==
    [i \in 1..ULONG_LIMBS |-> IF i <= 2 THEN MulCarry(a, k, 1, 0)[i] ELSE 0]
UlongMul(a, k) == SubSeq(MulCarry(a, k, 1, 0), 1, ULONG_LIMBS)

\* a / d by long division from the top limb down, d < LimbBase
RECURSIVE DivRem(_, _, _, _)
DivRem(a, d, i, r) ==
    IF i = 0 THEN <<>>
    ELSE LET t == r * LimbBase + a[i]
         IN  DivRem(a, d, i - 1, t % d) \o <<t \div d>>

UlongDiv(a, d) == DivRem(a, d, Len(a), 0)

\* line 90: (mm->total_vm * 4), printed with %lu
RowKb(total) == UlongMul(total, PAGE_KB)

\* lines 72 and 74: (mem_info.totalram * 4) / 1024, printed with %lu
MemMb_divide_first(pages) == UlongMul(UlongDiv(pages, KB_PER_MB), PAGE_KB)
MemMb(pages) == UlongDiv(UlongMul(pages, PAGE_KB), KB_PER_MB)

\* page counts the arithmetic is applied to: every limb from LimbChoices
LimbChoices == {0, 1, 16, 255, 16383, 16384, 65535}
UlongInputs == {u \in [1..ULONG_LIMBS -> LimbChoices] : TRUE}

NUnset == <<>>

NIdle ==
    /\ num_pages = NatToUlong(0)
    /\ num_kb = NUnset
    /\ num_mb = NUnset

NInit ==
    /\ num_pages \in UlongInputs
    /\ num_kb = NUnset
    /\ num_mb = NUnset

\* one process row for a process whose mm->total_vm is num_pages
print_row_kb ==
    /\ num_kb = NUnset
    /\ num_kb' = RowKb(num_pages)
    /\ UNCHANGED <<num_pages, num_mb>>
    /\ UNCHANGED <<kvars, cvars, mvars>>

\* one "Total RAM" / "Free RAM" line for a page count of num_pages
print_mem_mb ==
    /\ num_mb = NUnset
    /\ num_mb' = MemMb(num_pages)
    /\ UNCHANGED <<num_pages, num_kb>>
    /\ UNCHANGED <<kvars, cvars, mvars>>

\* line 51: "unsigned long total_processes = 0", an automatic variable
InitialTotal_static(prev) == prev
InitialTotal(prev) == 0

\* lines 51-81: locals initialised, header, CPU and memory blocks printed
proc_show_begin ==
    /\ pc \in {"idle", "done"}
    /\ shows < MaxShows
    /\ shows' = shows + 1
    /\ total_processes' = InitialTotal(total_processes)
    /\ rows' = <<>>
    /\ footer' = -1
    /\ visits' = <<>>
    /\ task' = 0
    /\ task_pid' = 0
    /\ mm' = NULL
    /\ pc' = "next"
    /\ UNCHANGED <<plat_vars, mm_users>>
    /\ UNCHANGED cvars
    /\ UNCHANGED <<mvars, nvars>>

\* what reading task->tasks.next can give: the pointer, or for a freed
\* task_struct the old pointer or poison
NextTaskReads(t) ==
    IF t # 0 /\ tstate[t] = "free" THEN {tnext[t], POISON} ELSE {tnext[t]}

\* line 84: for_each_process - task = next_task(task), until back at init_task
for_each_process_step ==
    /\ pc = "next"
    /\ \E p \in NextTaskReads(task) :
          IF p = POISON
          THEN pc' = "oops" /\ UNCHANGED <<task, task_pid>>
          ELSE /\ task' = p
               /\ task_pid' = IF p = 0 THEN 0 ELSE tpid[p]
               /\ pc' = IF p = 0 THEN "footer" ELSE "get_mm"
    /\ UNCHANGED <<plat_vars, mm_users, mm, total_processes, rows, footer, visits, shows>>
    /\ UNCHANGED cvars
    /\ UNCHANGED <<mvars, nvars>>

\* what reading task->mm under task_lock can give
TaskMmReads(t) ==
    IF tstate[t] = "free" THEN {tmm[t], POISON} ELSE {tmm[t]}

\* get_task_mm: a reference is taken only when the task has a mapping
GetTaskMmUsers_noref(users, m) == users
GetTaskMmUsers(users, m) ==
    IF m # NULL THEN [users EXCEPT ![m] = @ + 1] ELSE users

\* line 86: if (mm)
RowGuard_always(m) == TRUE
RowGuard(m) == m # NULL

\* lines 86-93: total_processes after the loop body has run for a task whose
\* get_task_mm gave m; the increment sits inside the if (mm) block
NextTotal_always(n, m) == n + 1
NextTotal(n, m) == IF RowGuard(m) THEN n + 1 ELSE n

\* mm->total_vm as read through pointer m
ReadTotalVm(m) == IF m \in Mms THEN total_vm[m] ELSE 0

\* lines 85-86: mm = get_task_mm(task); if (mm) ... else the body is over
proc_show_get_task_mm ==
    /\ pc = "get_mm"
    /\ \E m \in TaskMmReads(task) :
          IF m = POISON
          THEN pc' = "oops" /\ UNCHANGED <<mm, mm_users, visits, total_processes>>
          ELSE /\ mm' = m
               /\ mm_users' = GetTaskMmUsers(mm_users, m)
               /\ visits' = Append(visits, [pid |-> task_pid, mm |-> m, vm |-> ReadTotalVm(m)])
               /\ IF RowGuard(m)
                  THEN pc' = "print" /\ UNCHANGED total_processes
                  ELSE pc' = "next" /\ total_processes' = NextTotal(total_processes, m)
    /\ UNCHANGED <<plat_vars, task, task_pid, rows, footer, shows>>
    /\ UNCHANGED cvars
    /\ UNCHANGED <<mvars, nvars>>

\* what reading task->pid can give
TaskPidReads(t) ==
    IF tstate[t] = "free" THEN {tpid[t], POISON} ELSE {tpid[t]}

\* lines 87-90: the row is formatted from task->comm, task->pid, mm->total_vm
proc_show_print ==
    /\ pc = "print"
    /\ \E p \in TaskPidReads(task) :
          rows' = Append(rows, [pid |-> p, kb |-> UlongToNat(RowKb(NatToUlong(ReadTotalVm(mm))))])
    /\ pc' = "mmput"
    /\ UNCHANGED <<plat_vars, mm_users, task, task_pid, mm, total_processes, footer, visits, shows>>
    /\ UNCHANGED cvars
    /\ UNCHANGED <<mvars, nvars>>

\* mmput: drop the reference (the mm_struct is freed at 0)
MmPut_leak(users, m) == users
MmPut(users, m) ==
    IF m \in Mms THEN [users EXCEPT ![m] = @ - 1] ELSE users

\* lines 91-92: mmput(mm); total_processes++
proc_show_mmput ==
    /\ pc = "mmput"
    /\ mm_users' = MmPut(mm_users, mm)
    /\ total_processes' = NextTotal(total_processes, mm)
    /\ pc' = "next"
    /\ UNCHANGED <<plat_vars, task, task_pid, mm, rows, footer, visits, shows>>
    /\ UNCHANGED cvars
    /\ UNCHANGED <<mvars, nvars>>

\* line 96: the footer; line 98: return 0
proc_show_footer ==
    /\ pc = "footer"
    /\ footer' = total_processes
    /\ pc' = "done"
    /\ UNCHANGED <<plat_vars, mm_users, task, task_pid, mm, total_processes, rows, visits, shows>>
    /\ UNCHANGED cvars
    /\ UNCHANGED <<mvars, nvars>>

(***************************************************************************)
(* Module init and exit (src/kernel_monitor.c:133-163)                     *)
(***************************************************************************)
MaxModCalls == 5     \* calls of kernel_monitor_init and kernel_monitor_exit

ENOMEM == 12         \* src/kernel_monitor.c:141 "return -ENOMEM"
NOT_CALLED == 1      \* init_ret before kernel_monitor_init ever returned

\* the module is loaded and its entry registered: the state every read of
\* /proc/kernel_monitor starts from
MLoaded ==
    /\ proc_entry = TRUE
    /\ init_ret = 0
    /\ dmesg = <<"loaded", "available">>
    /\ mod_calls = 1

\* before the first call of kernel_monitor_init
MInit ==
    /\ proc_entry = FALSE
    /\ init_ret = NOT_CALLED
    /\ dmesg = <<>>
    /\ mod_calls = 0

\* proc_create(PROC_NAME, ...): NULL when the name is taken or when no
\* memory is left, the new entry otherwise
ProcCreateOutcomes(present) == IF present THEN {FALSE} ELSE {TRUE, FALSE}

\* remove_proc_entry(PROC_NAME, NULL): unlinks the entry of that name;
\* for a name that is not there procfs logs WARN "name 'kernel_monitor'"
RemoveProcEntryLog(present) == IF present THEN <<>> ELSE <<"warn_no_such_entry">>

kernel_monitor_init ==
    /\ mod_calls < MaxModCalls
    /\ mod_calls' = mod_calls + 1
    /\ \E created \in ProcCreateOutcomes(proc_entry) :
          IF ~created
          THEN /\ dmesg' = Append(dmesg, "create_failed")
               /\ init_ret' = -ENOMEM
               /\ UNCHANGED proc_entry
          ELSE /\ proc_entry' = TRUE
               /\ dmesg' = dmesg \o <<"loaded", "available">>
               /\ init_ret' = 0
    /\ UNCHANGED <<kvars, cvars, nvars>>

\* the body has no condition and the module keeps no handle or flag: the
\* entry is removed by name in whatever state the call finds it
kernel_monitor_exit ==
    /\ mod_calls < MaxModCalls
    /\ mod_calls' = mod_calls + 1
    /\ proc_entry' = FALSE
    /\ dmesg' = dmesg \o RemoveProcEntryLog(proc_entry) \o <<"unloaded">>
    /\ UNCHANGED init_ret
    /\ UNCHANGED <<kvars, cvars, nvars>>

(***************************************************************************)
(* The client (src/monitor_app.c)                                          *)
(***************************************************************************)
MaxArgs == 2         \* options on the command line
MaxArgLen == 2       \* characters in the argument of --watch
MaxRows == 100       \* process rows in the text behind the endpoint
MaxFetches == 2      \* the fetch counter saturates here

BUFFER_SIZE == 4096  \* src/monitor_app.c:22
WARMUP_SECONDS == 2  \* src/monitor_app.c:135 "sleep(2)"
EXIT_SUCCESS == 0
EXIT_FAILURE == 1
FixedLen == 441      \* bytes of the layout before the first row, one-digit numbers
RowLen == 43         \* bytes of "%-20s %-8d %-12lu\n" with no field overflowing
FooterLen == 19      \* bytes of "\nTotal Processes: \n" without the count

\* characters of a --watch argument: the sign, a zero digit, a nonzero digit;
\* "-" after the first position stands for any character that is not a digit
Chars == {"-", "0", "1"}
Digit == {"0", "1"}
DigitVal(c) == IF c = "1" THEN 1 ELSE 0

Strings == UNION {[1..n -> Chars] : n \in 0..MaxArgLen}

\* decimal value of the leading digits of s, continuing from acc
RECURSIVE AtoiDigits(_, _)
AtoiDigits(s, acc) ==
    IF s = <<>> \/ Head(s) \notin Digit THEN acc
    ELSE AtoiDigits(Tail(s), acc * 10 + DigitVal(Head(s)))

\* atoi: optional sign, then digits up to the first other character
Atoi(s) ==
    IF s # <<>> /\ Head(s) = "-" THEN 0 - AtoiDigits(Tail(s), 0)
    ELSE AtoiDigits(s, 0)

\* command-line words: -h -v -r, -w ARG, -w as last word, an unknown option
OptKinds == {"h", "v", "r", "w", "w_missing", "unknown"}
Tokens ==
    {[opt |-> k, arg |-> <<>>] : k \in OptKinds \ {"w"}}
        \cup {[opt |-> "w", arg |-> a] : a \in Strings}

ArgVectors ==
    {a \in UNION {[1..n -> Tokens] : n \in 0..MaxArgs} :
        \A i \in 1..Len(a) : a[i].opt = "w_missing" => i = Len(a)}

\* getopt_long with "hvrw:": the option character, '?' for an unknown
\* option and for a missing argument
getopt_long(tok) ==
    IF tok.opt \in {"unknown", "w_missing"} THEN "?" ELSE tok.opt

\* number of decimal digits of n
RECURSIVE Digits(_)
Digits(n) == IF n < 10 THEN 1 ELSE 1 + Digits(n \div 10)

\* bytes of the text proc_show writes for n rows
SnapshotLen(n) == FixedLen + n * RowLen + FooterLen + Digits(n)
RowCounts == {0, 1, MaxRows}
TextLens == {SnapshotLen(n) : n \in RowCounts}

Min(a, b) == IF a < b THEN a ELSE b


CStart(a) ==
    /\ argv = a
    /\ optind = 1
    /\ last_opt = ""
    /\ raw_mode = FALSE
    /\ watch_interval = 0
    /\ cpc = "parse"
    /\ exit_code = -1
    /\ watching = FALSE
    /\ raw = FALSE
    /\ out = <<>>
    /\ err = <<>>
    /\ frame_out = <<>>
    /\ frame_err = <<>>
    /\ fd_open = 0
    /\ avail = -1
    /\ bytes_read = 0
    /\ nul_at = -1
    /\ fetch_result = "none"
    /\ fetches = 0
    /\ slept = 0

CInit == \E a \in ArgVectors : CStart(a)

fetch_vars == <<raw, frame_out, frame_err, fd_open, avail, bytes_read, nul_at,
                fetch_result, fetches>>
parse_vars == <<argv, optind, last_opt, raw_mode, watch_interval>>

\* lines 184-186: default: print_usage(argv[0]); return EXIT_FAILURE
default_case_quiet == <<>>
default_case_stdout == <<"usage">>

\* lines 179-182: the rejected interval
invalid_interval_output == [out |-> <<>>, err |-> <<"invalid_interval">>]

\* lines 166-188: one turn of the option loop
main_option ==
    /\ cpc = "parse"
    /\ optind <= Len(argv)
    /\ LET opt == getopt_long(argv[optind])
           optarg == argv[optind].arg
           Exit(code) == cpc' = "exit" /\ exit_code' = code
           Go == UNCHANGED <<cpc, exit_code>>
       IN /\ last_opt' = opt
          /\ optind' = optind + 1
          /\ CASE opt = "h" ->
                    /\ out' = out \o <<"usage">>
                    /\ Exit(EXIT_SUCCESS)
                    /\ UNCHANGED <<raw_mode, watch_interval, err>>
               [] opt = "v" ->
                    /\ out' = out \o <<"version">>
                    /\ Exit(EXIT_SUCCESS)
                    /\ UNCHANGED <<raw_mode, watch_interval, err>>
               [] opt = "r" ->
                    /\ raw_mode' = TRUE
                    /\ Go
                    /\ UNCHANGED <<watch_interval, out, err>>
               [] opt = "w" ->
                    /\ watch_interval' = Atoi(optarg)
                    /\ IF Atoi(optarg) <= 0
                       THEN /\ out' = out \o invalid_interval_output.out
                            /\ err' = err \o invalid_interval_output.err
                            /\ Exit(EXIT_FAILURE)
                       ELSE Go /\ UNCHANGED <<out, err>>
                    /\ UNCHANGED raw_mode
               [] OTHER ->
                    /\ out' = out \o default_case_stdout
                    /\ Exit(EXIT_FAILURE)
                    /\ UNCHANGED <<raw_mode, watch_interval, err>>
    /\ UNCHANGED <<argv, watching, slept>>
    /\ UNCHANGED fetch_vars
    /\ UNCHANGED kvars
    /\ UNCHANGED <<mvars, nvars>>

\* display_data(r) is entered
EnterDisplay(r) ==
    /\ raw' = r
    /\ frame_out' = <<>>
    /\ frame_err' = <<>>
    /\ avail' = -1
    /\ bytes_read' = 0
    /\ nul_at' = -1
    /\ fetch_result' = "none"
    /\ fetches' = Min(fetches + 1, MaxFetches)
    /\ cpc' = "open"
    /\ UNCHANGED fd_open

\* lines 190-195: getopt_long returned -1; watch mode or a single fetch
main_dispatch ==
    /\ cpc = "parse"
    /\ optind > Len(argv)
    /\ IF watch_interval > 0
       THEN /\ watching' = TRUE
            /\ cpc' = "watch"
            /\ UNCHANGED fetch_vars
       ELSE /\ EnterDisplay(raw_mode)
            /\ UNCHANGED watching
    /\ UNCHANGED <<parse_vars, exit_code, out, err, slept>>
    /\ UNCHANGED kvars
    /\ UNCHANGED <<mvars, nvars>>

\* lines 133-135: the start banner, then sleep(2)
watch_mode_banner ==
    /\ cpc = "watch"
    /\ out' = out \o <<"watch_banner", "press_ctrl_c">>
    /\ slept' = WARMUP_SECONDS
    /\ cpc' = "warmup"
    /\ UNCHANGED <<parse_vars, exit_code, watching, err>>
    /\ UNCHANGED fetch_vars
    /\ UNCHANGED kvars
    /\ UNCHANGED <<mvars, nvars>>

\* line 138: display_data(0), whatever raw_mode is
WatchRaw_passthrough(r) == r
WatchRaw(r) == FALSE

\* lines 137-138: the loop is entered, display_data(0)
watch_mode_first ==
    /\ cpc = "warmup"
    /\ EnterDisplay(WatchRaw(raw_mode))
    /\ UNCHANGED <<parse_vars, exit_code, watching, out, err, slept>>
    /\ UNCHANGED kvars
    /\ UNCHANGED <<mvars, nvars>>

\* lines 75-77 and 84-85: the diagnostics of read_kernel_data
open_failure_diag == <<"open_error", "module_hint">>
read_failure_silent == <<>>
read_failure_diag == <<"read_error">>

\* lines 73-79: open(PROC_PATH, O_RDONLY)
read_kernel_data_open ==
    /\ cpc = "open"
    /\ \/ /\ fd_open' = fd_open + 1
          /\ cpc' = "read"
          /\ UNCHANGED <<frame_err, bytes_read, fetch_result>>
       \/ /\ frame_err' = frame_err \o open_failure_diag
          /\ bytes_read' = -1
          /\ fetch_result' = "open_failed"
          /\ cpc' = "show"
          /\ UNCHANGED fd_open
    /\ UNCHANGED <<parse_vars, exit_code, watching, out, err, slept,
                   raw, frame_out, avail, nul_at, fetches>>
    /\ UNCHANGED kvars
    /\ UNCHANGED <<mvars, nvars>>

\* read(fd, buffer, size - 1): at most size - 1 of the n bytes available
ReadCount_full(n, size) == Min(n, size)
ReadCount(n, size) == Min(n, size - 1)

\* line 86: close(fd) before the return -1 of a failed read
CloseAfterReadFailure_leak(n) == n
CloseAfterReadFailure(n) == n - 1

\* lines 82-94: read; on failure the diagnostic, close, return -1; on
\* success the terminator at buffer[bytes_read], close, return bytes_read
read_kernel_data_read ==
    /\ cpc = "read"
    /\ \/ \E n \in TextLens :
             /\ avail' = n
             /\ bytes_read' = ReadCount(n, BUFFER_SIZE)
             /\ nul_at' = ReadCount(n, BUFFER_SIZE)
             /\ fetch_result' = "ok"
             /\ fd_open' = fd_open - 1
             /\ UNCHANGED frame_err
       \/ /\ frame_err' = frame_err \o read_failure_diag
          /\ bytes_read' = -1
          /\ fetch_result' = "read_failed"
          /\ fd_open' = CloseAfterReadFailure(fd_open)
          /\ UNCHANGED <<avail, nul_at>>
    /\ cpc' = "show"
    /\ UNCHANGED <<parse_vars, exit_code, watching, out, err, slept,
                   raw, frame_out, fetches>>
    /\ UNCHANGED kvars
    /\ UNCHANGED <<mvars, nvars>>

\* what the n bytes of the buffer are printed as
Buffer(n) == [kind |-> "buffer", len |-> n]
Lit(k) == [kind |-> k, len |-> 0]
Banner == <<Lit("clear_screen"), Lit("bold_blue"), Lit("banner_top"),
            Lit("banner_title"), Lit("banner_bottom"), Lit("color_reset")>>

\* lines 113-124
Render(r, n) ==
    IF r THEN <<Buffer(n)>>
    ELSE Banner \o <<Lit("newline"), Buffer(n), Lit("newline")>>

\* where control goes when display_data returns
AfterDisplay_stop(w) == "ret"
AfterDisplay(w) == IF w THEN "sleep" ELSE "ret"

\* lines 108-125: the early return on failure, or the output
display_data_show ==
    /\ cpc = "show"
    /\ IF bytes_read < 0
       THEN UNCHANGED frame_out
       ELSE frame_out' = frame_out \o Render(raw, bytes_read)
    /\ cpc' = AfterDisplay(watching)
    /\ UNCHANGED <<parse_vars, exit_code, watching, out, err, slept,
                   raw, frame_err, fd_open, avail, bytes_read, nul_at, fetch_result,
                   fetches>>
    /\ UNCHANGED kvars
    /\ UNCHANGED <<mvars, nvars>>

\* lines 139 and 138: sleep(interval), then display_data(0) again
watch_mode_sleep ==
    /\ cpc = "sleep"
    /\ slept' = watch_interval
    /\ EnterDisplay(WatchRaw(raw_mode))
    /\ UNCHANGED <<parse_vars, exit_code, watching, out, err>>
    /\ UNCHANGED kvars
    /\ UNCHANGED <<mvars, nvars>>

\* line 197: return EXIT_SUCCESS, display_data having returned nothing
ReturnCode_of_fetch(result) == IF result = "ok" THEN EXIT_SUCCESS ELSE EXIT_FAILURE
ReturnCode(result) == EXIT_SUCCESS

main_return ==
    /\ cpc = "ret"
    /\ cpc' = "exit"
    /\ exit_code' = ReturnCode(fetch_result)
    /\ UNCHANGED <<parse_vars, watching, out, err, slept>>
    /\ UNCHANGED fetch_vars
    /\ UNCHANGED kvars
    /\ UNCHANGED <<mvars, nvars>>

vars == <<kvars, cvars, mvars, nvars>>

Init == KInit /\ CStart(<<>>) /\ MLoaded /\ NIdle

Next ==
    \/ \E s \in Slots, user \in BOOLEAN, vm \in TotalVmValues : Fork(s, user, vm)
    \/ \E s \in Slots : ExitMm(s)
    \/ \E s \in Slots : ReleaseTask(s)
    \/ \E s \in Slots : Reclaim(s)
    \/ proc_show_begin
    \/ for_each_process_step
    \/ proc_show_get_task_mm
    \/ proc_show_print
    \/ proc_show_mmput
    \/ proc_show_footer

Spec == Init /\ [][Next]_vars

ClientInit == CInit /\ KInit /\ MLoaded /\ NIdle

ClientNext ==
    \/ main_option
    \/ main_dispatch
    \/ watch_mode_banner
    \/ watch_mode_first
    \/ read_kernel_data_open
    \/ read_kernel_data_read
    \/ display_data_show
    \/ watch_mode_sleep
    \/ main_return

ClientSpec == ClientInit /\ [][ClientNext]_vars

\* the client is one thread that is never blocked for good: sleep returns,
\* open and read return
ClientFairSpec == ClientSpec /\ WF_vars(ClientNext)

ModuleInit == MInit /\ KInit /\ CStart(<<>>) /\ NIdle

ModuleNext ==
    \/ kernel_monitor_init
    \/ kernel_monitor_exit

ModuleSpec == ModuleInit /\ [][ModuleNext]_vars

NumInit == NInit /\ KInit /\ CStart(<<>>) /\ MLoaded

NumNext ==
    \/ print_row_kb
    \/ print_mem_mb

NumSpec == NumInit /\ [][NumNext]_vars

(***************************************************************************)
(* Properties of the provider (checked under Spec)                         *)
(***************************************************************************)
\* the visits whose get_task_mm gave a mapping
Acquired == SelectSeq(visits, LAMBDA v : v.mm # NULL)
Skipped == SelectSeq(visits, LAMBDA v : v.mm = NULL)

\* references proc_show itself holds on mm m
Held(m) == IF pc \in {"print", "mmput"} /\ mm = m THEN 1 ELSE 0

\* C1: when proc_show returns, the number printed in the "Total Processes"
\* footer equals the number of process rows emitted by that invocation.
C1_FooterEqualsRows ==
    pc = "done" => footer = Len(rows)

C1_Witness ==
    /\ pc = "done"
    /\ footer = 1
    /\ Len(Skipped) >= 1

\* C2: a visited process gets a row if and only if get_task_mm gave a
\* mapping when it was visited; a process without one is neither printed
\* nor counted.
C2_RowIffMapping ==
    /\ pc \in {"print", "mmput"} => mm # NULL
    /\ Len(rows) = Len(Acquired) - (IF pc = "print" THEN 1 ELSE 0)
    /\ total_processes = Len(Acquired) - (IF pc \in {"print", "mmput"} THEN 1 ELSE 0)
    /\ \A i \in 1..Len(rows) : rows[i].kb = Acquired[i].vm * PAGE_KB

C2_Witness ==
    /\ pc = "footer"
    /\ Len(Acquired) >= 1
    /\ Len(Skipped) >= 1
    /\ Len(rows) = Len(Acquired)

\* C3: every reference proc_show takes on a mapping is given back before
\* the next process is visited, a failed acquire releases nothing, at most
\* one reference is held at a time and none when proc_show has returned:
\* the count of every mapping is the tasks' references plus the one
\* reference proc_show holds between get_task_mm and mmput.
C3_AcquireReleasePaired ==
    \A m \in Mms : mm_users[m] = TaskRefs(m) + Held(m)

C3_Witness ==
    /\ pc = "next"
    /\ Len(rows) = 1
    /\ mm # NULL
    /\ mm_users[mm] = 1
    /\ TaskRefs(mm) = 1

\* C4: mm->total_vm is read only while proc_show holds its reference on
\* that mapping, so the mapping read is alive and is the one acquired even
\* when the process exits between the acquire and the read.
C4_ReadUnderReference ==
    pc = "print" =>
        /\ mm \in Mms
        /\ mm_users[mm] >= 1
        /\ total_vm[mm] = visits[Len(visits)].vm

C4_Witness ==
    /\ pc = "print"
    /\ TaskRefs(mm) = 0
    /\ mm_users[mm] = 1

\* C5: under any interleaving of process creation and exit with the loop,
\* the loop never stands on or reads an entry that has been taken off the
\* table and reclaimed, and it does not crash.
C5_NeverVisitsReclaimedEntry ==
    /\ pc # "oops"
    /\ (pc \in {"next", "get_mm", "print"} /\ task # 0) =>
            /\ tstate[task] # "free"
            /\ tpid[task] = task_pid

(***************************************************************************)
(* Properties of the client (checked under ClientSpec / ClientFairSpec)    *)
(***************************************************************************)
FetchFailed == fetch_result \in {"open_failed", "read_failed"}

\* C6: in watch mode a failed fetch never ends the loop: every fetch,
\* failed or not, is followed by the sleep of the interval and then by
\* another fetch, and watch_mode never returns.
C6_WatchLoopNeverEnds ==
    /\ [](watching => cpc \notin {"ret", "exit"} /\ exit_code = -1)
    /\ [][(watching /\ cpc = "show") => cpc' = "sleep"]_vars
    /\ [][cpc = "sleep" => (cpc' = "open" /\ slept' = watch_interval)]_vars
    /\ ((watching /\ cpc = "show") ~> (cpc = "open" /\ fetch_result = "none"))

C6_Witness ==
    /\ watching
    /\ cpc = "sleep"
    /\ fetch_result = "open_failed"
    /\ fetches = MaxFetches

\* a string that is a positive decimal integer
IsPositiveInteger(s) ==
    /\ s # <<>>
    /\ \A i \in 1..Len(s) : s[i] \in Digit
    /\ \E i \in 1..Len(s) : s[i] # "0"

BadWatchArgGiven ==
    \E i \in 1..Len(argv) : argv[i].opt = "w" /\ ~IsPositiveInteger(argv[i].arg)

\* C7: when a --watch argument is not a positive integer, the program
\* exits with code 1, never enters watch mode and never fetches, whatever
\* options preceded it.
C7_BadWatchArgRejected ==
    /\ (last_opt = "w" /\ ~IsPositiveInteger(argv[optind - 1].arg)) =>
            (cpc = "exit" /\ exit_code = EXIT_FAILURE)
    /\ BadWatchArgGiven =>
            /\ ~watching
            /\ fetches = 0
            /\ cpc \in {"parse", "exit"}
            /\ cpc = "exit" => exit_code = EXIT_FAILURE

C9_FullTextDisplayed ==
    (fetch_result = "ok" /\ cpc \in {"sleep", "ret", "exit"}) =>
        IF raw
        THEN frame_out = <<Buffer(avail)>>
        ELSE /\ SubSeq(frame_out, 1, Len(Banner)) = Banner
             /\ \E i \in Len(Banner) + 1..Len(frame_out) : frame_out[i] = Buffer(avail)

\* C10: a fetch whose open or read failed has printed a diagnostic on the
\* error stream, nothing on standard output, and returns to its caller
\* without ending the process.
C10_FailedFetchDiagnosed ==
    /\ [](FetchFailed =>
            /\ frame_out = <<>>
            /\ bytes_read = -1
            /\ fetch_result = "open_failed" => frame_err = <<"open_error", "module_hint">>
            /\ fetch_result = "read_failed" => frame_err = <<"read_error">>)
    /\ [][(FetchFailed /\ cpc = "show") =>
            (cpc' \in {"sleep", "ret"} /\ exit_code' = -1 /\ frame_out' = <<>>)]_vars

C10_Witness ==
    /\ fetch_result = "read_failed"
    /\ cpc = "ret"
    /\ frame_err # <<>>

(***************************************************************************)
(* Properties of module init and exit (checked under ModuleSpec)           *)
(***************************************************************************)
\* C11: kernel_monitor_exit is safe in every lifecycle state: run when
\* registration never succeeded or after an earlier deregistration it does
\* not remove or touch an entry that does not exist, and after it has run
\* the endpoint is not registered.
C11_ExitSafeInEveryState ==
    /\ \A i \in 1..Len(dmesg) : dmesg[i] # "warn_no_such_entry"
    /\ (dmesg # <<>> /\ dmesg[Len(dmesg)] = "unloaded") => ~proc_entry

(***************************************************************************)
(* Properties of repeated reads (checked under Spec)                       *)
(***************************************************************************)
\* C12: the provider keeps nothing from one invocation to the next: every
\* invocation starts with the counter at 0 and with no row, whatever the
\* invocation before left behind, and what it has produced when it returns
\* is fixed by what this invocation saw of the process table: one row per
\* mapping it acquired, with that mapping's size, and their number as the
\* total.
C12_NoStateBetweenInvocations ==
    /\ [][pc' = "next" /\ pc \in {"idle", "done"}
            => total_processes' = 0 /\ rows' = <<>> /\ footer' = -1]_vars
    /\ [](pc = "done" =>
            /\ footer = Len(Acquired)
            /\ Len(rows) = Len(Acquired)
            /\ \A i \in 1..Len(rows) :
                  NatToUlong(rows[i].kb) = RowKb(NatToUlong(Acquired[i].vm)))

\* a second invocation has returned with a row
C12_Witness ==
    /\ shows = 2
    /\ pc = "done"
    /\ footer >= 1
    /\ Len(rows) = footer

(***************************************************************************)
(* Properties of the memory columns (checked under NumSpec)                *)
(***************************************************************************)
\* the top limb of the first page count whose product with 4 does not fit
\* an unsigned long: 2^62 = WrapLimb * LimbBase^3
WrapLimb == LimbBase \div PAGE_KB

\* kb is exactly pages * 4: dividing it by 4 gives pages with nothing left
ExactKb(kb, pages) ==
    /\ UlongDiv(kb, PAGE_KB) = pages
    /\ kb[1] % PAGE_KB = 0

\* floor(pages * 4 / 1024) without overflow, which is floor(pages / 256)
ExactMb(pages) == UlongDiv(pages, KB_PER_MB \div PAGE_KB)

\* C13 as stated: for every page count an unsigned long can hold, the
\* memory value printed in the row is the count times 4 exactly, without
\* wrap-around.
C13_RowKbExactForEveryCount ==
    num_kb # NUnset => ExactKb(num_kb, num_pages)

\* C13: the memory value of a row is the page count times 4 computed in
\* unsigned long: exactly count * 4 for every count below 2^62, and
\* count * 4 reduced modulo 2^64 (the two top bits of the count lost) from
\* 2^62 on.
C13_RowKbExactBelowWrap ==
    num_kb # NUnset =>
        /\ ExactKb(num_kb, [num_pages EXCEPT ![ULONG_LIMBS] = @ % WrapLimb])
        /\ ExactKb(num_kb, num_pages) <=> num_pages[ULONG_LIMBS] < WrapLimb

\* the largest count of the inputs that does not wrap has been printed
C13_Witness ==
    /\ num_kb # NUnset
    /\ \A i \in 1..(ULONG_LIMBS - 1) : num_pages[i] = LimbBase - 1
    /\ num_pages[ULONG_LIMBS] = WrapLimb - 1
    /\ ExactKb(num_kb, num_pages)

\* C14 as stated: for every page count an unsigned long can hold, the MB
\* value printed next to it is floor(pages * 4 / 1024) computed without
\* overflow.
C14_MbExactForEveryCount ==
    num_mb # NUnset => num_mb = ExactMb(num_pages)

\* C14: the MB value is (pages * 4) / 1024 with the product computed in
\* unsigned long: floor(pages * 4 / 1024) for every count below 2^62
\* (1048576 pages give 4096 MB), and the same function of the count without
\* its two top bits from 2^62 on.
C14_MbExactBelowWrap ==
    num_mb # NUnset =>
        /\ num_mb = ExactMb([num_pages EXCEPT ![ULONG_LIMBS] = @ % WrapLimb])
        /\ num_pages[ULONG_LIMBS] < WrapLimb => num_mb = ExactMb(num_pages)
        /\ num_pages = <<0, 16, 0, 0>> => num_mb = <<4096, 0, 0, 0>>

\* 1048576 pages have been printed as 4096 MB
C14_Witness ==
    /\ num_pages = <<0, 16, 0, 0>>
    /\ num_mb = <<4096, 0, 0, 0>>

(***************************************************************************)
(* Properties of the client's modes and of one fetch                       *)
(* (checked under ClientSpec)                                               *)
(***************************************************************************)
\* main took the else branch of line 191: display_data(raw_mode) was called
OneShot == ~watching /\ fetches >= 1

\* steps main still has to take in one-shot mode before it has returned
StepsLeft(at) ==
    CASE at = "open" -> 4
      [] at = "read" -> 3
      [] at = "show" -> 2
      [] at = "ret" -> 1
      [] OTHER -> 0

C16_WatchOrder ==
    /\ [][cpc = "watch" =>
            /\ out' = out \o <<"watch_banner", "press_ctrl_c">>
            /\ slept' = WARMUP_SECONDS
            /\ cpc' = "warmup"
            /\ fetches' = 0]_vars
    /\ [][watching /\ cpc # "open" /\ cpc' = "open" =>
            \/ cpc = "warmup" /\ fetches = 0 /\ slept = WARMUP_SECONDS /\ slept' = slept
            \/ cpc = "sleep" /\ fetches >= 1 /\ slept' = watch_interval]_vars
    /\ [][watching /\ cpc = "show" => cpc' = "sleep"]_vars
    /\ [](watching /\ fetches >= 1 =>
            /\ raw = FALSE
            /\ Len(out) >= 2 /\ out[Len(out) - 1] = "watch_banner"
            /\ (cpc = "sleep" /\ fetch_result = "ok") => frame_out = Render(FALSE, bytes_read))

\* --raw with --watch: the second fetch has been shown, decorated
C16_Witness ==
    /\ watching
    /\ raw_mode
    /\ fetches = 2
    /\ cpc = "sleep"
    /\ fetch_result = "ok"
    /\ slept = watch_interval
    /\ frame_out = Render(FALSE, bytes_read)

\* C17: whenever read_kernel_data opened the endpoint it closes the handle
\* exactly once before it returns, after a successful and after a failed
\* read: a handle is open only between open and read, never between
\* fetches, and the number of open handles does not grow with the
\* iterations of the watch loop.
C17_HandleReleased ==
    /\ [](fd_open \in {0, 1} /\ (fd_open = 1 <=> cpc = "read"))
    /\ [][cpc = "read" => fd_open' = fd_open - 1 /\ cpc' = "show"]_vars

\* a later iteration of the watch loop whose read failed has no handle left
C17_Witness ==
    /\ watching
    /\ fetches = MaxFetches
    /\ fetch_result = "read_failed"
    /\ cpc = "sleep"
    /\ fd_open = 0

\* C18: read_kernel_data never writes outside the caller's buffer: for
\* every amount of data behind the endpoint at most size - 1 bytes are
\* stored and the terminator goes to an index between 0 and size - 1; after
\* a failed open or read no terminator is stored and nothing of the buffer
\* is printed.
C18_BufferBounds ==
    /\ fetch_result = "ok" =>
          /\ bytes_read \in 0..(BUFFER_SIZE - 1)
          /\ bytes_read <= avail
          /\ nul_at = bytes_read
    /\ nul_at \in -1..(BUFFER_SIZE - 1)
    /\ FetchFailed => nul_at = -1 /\ frame_out = <<>>
    /\ \A i \in 1..Len(frame_out) : frame_out[i].len <= BUFFER_SIZE - 1

\* more text than the buffer holds: the terminator is at the last index
C18_Witness ==
    /\ fetch_result = "ok"
    /\ avail >= BUFFER_SIZE
    /\ bytes_read = BUFFER_SIZE - 1
    /\ nul_at = BUFFER_SIZE - 1
    /\ frame_out # <<>>
====
